---------------------------- MODULE Spec2Model ----------------------------
(***************************************************************************)
(* A model of mastodon_analyzer.py: the CLI command analyze, the           *)
(* MastodonPostExtractor (HTML selectors, og:description, REST fallback,   *)
(* post id patterns) and the ScamAnalyzer (model call, reply parsing),     *)
(* with the text renderer _display_text_results.                           *)
(*                                                                         *)
(* Strings are sequences of atoms (words, punctuation, white space), so    *)
(* that trimming, searching and decoding are computed and not assumed.     *)
(* A Python dict is a function from the set of its keys.                   *)
(***************************************************************************)
EXTENDS Integers, Sequences, FiniteSets, TLC

VARIABLES
    pc,          \* position of the run: start, extract, try_api, analyze, render, exited
    api_key,     \* the --api-key option / OPENROUTER_API_KEY value
    output,      \* the --output option
    verbose,     \* the --verbose flag
    url,         \* the URL argument: [netloc, path]
    doc,         \* the parsed page handed to _extract_from_html
    html_data,   \* the record _extract_from_html returned (None before)
    consulted,   \* the content selectors handed to soup.select_one, in order
    post_id,     \* what _extract_post_id returned in _try_api_extraction
    api_resp,    \* what the GET of the REST fallback brought (NoResponse: no GET)
    post_data,   \* what extract_post_data returned (None: failure or not yet)
    reply,       \* the raw model reply handed to _parse_analysis_result
    analysis,    \* the result of analyze_post
    exit_code,   \* the process exit code (NoExit while running)
    crashed,     \* an exception reached the top level of the process
    net,         \* the network requests issued so far, in order
    out,         \* what was written to stdout, as tags
    err          \* what was written to stderr, as tags

vars == <<pc, api_key, output, verbose, url, doc, html_data, consulted, post_id,
          api_resp, post_data, reply, analysis, exit_code, crashed, net, out, err>>

(***************************************************************************)
(* Bounds of the model.                                                    *)
(***************************************************************************)
MaxReplyLen == 4
MaxSegs == 4
MaxElems == 2

(***************************************************************************)
(* Python values.                                                          *)
(***************************************************************************)
\* Python's None where a dict is expected.
None == [None |-> <<>>]

\* Python's None where a string is expected.
NoneStr == <<"None">>

EmptyDict == [k \in {} |-> <<>>]

\* dict.get(key, default)
Get(d, k, default) == IF k \in DOMAIN d THEN d[k] ELSE default

\* a decoded or constructed value of an analysis result: its JSON type and text
Val(t, v) == [t |-> t, v |-> v]

Str(v) == Val("str", v)

PyFalse == Val("bool", <<"false">>)

PyTrue == Val("bool", <<"true">>)

PyBool(b) == IF b THEN PyTrue ELSE PyFalse

\* bool(x) of a value
Truthy(x) ==
    CASE x.t = "bool" -> x.v = <<"true">>
      [] x.t = "num" -> x.v # <<"0">>
      [] x.t = "null" -> FALSE
      [] OTHER -> x.v # <<>>

\* str.strip(): leading and trailing white space removed
RECURSIVE LStrip(_)
LStrip(s) == IF s # <<>> /\ Head(s) = " " THEN LStrip(Tail(s)) ELSE s

RECURSIVE RStrip(_)
RStrip(s) ==
    IF s # <<>> /\ s[Len(s)] = " " THEN RStrip(SubSeq(s, 1, Len(s) - 1)) ELSE s

Strip(s) == RStrip(LStrip(s))

\* BeautifulSoup get_text(strip=True): every text node trimmed, the empty
\* ones dropped, the rest joined without a separator; tags are not text
IsTag(a) == a \in {"<p>", "</p>"}

RECURSIVE TextNodes(_, _)
TextNodes(html, node) ==
    IF html = <<>> THEN Strip(node)
    ELSE IF IsTag(Head(html)) THEN Strip(node) \o TextNodes(Tail(html), <<>>)
    ELSE TextNodes(Tail(html), Append(node, Head(html)))

GetText(html) == TextNodes(html, <<>>)

(***************************************************************************)
(* MastodonPostExtractor._extract_from_html                                *)
(***************************************************************************)
content_selectors ==
    << ".status__content",
       ".detailed-status__wrapper .status__content",
       "[data-testid=status-content]",
       ".post-content",
       ".toot-content",
       "article .content",
       ".status-content" >>

author_selectors ==
    << ".status__display-name strong",
       ".detailed-status__display-name strong",
       ".display-name__account",
       ".author-name",
       ".username" >>

OgDescription == "meta[property=og:description]"

\* soup.select_one(selector) / soup.find: the index of the first element, in
\* document order, that the selector matches; 0 for no element
SelectOne(soup, selector) ==
    IF \E i \in DOMAIN soup : selector \in soup[i].matches
    THEN CHOOSE i \in DOMAIN soup :
             /\ selector \in soup[i].matches
             /\ \A j \in 1..(i - 1) : selector \notin soup[j].matches
    ELSE 0

\* the for ... break loops: the index of the first selector of the list that
\* matches an element; 0 when the loop runs to its end
RECURSIVE FirstSelector(_, _, _)
FirstSelector(soup, selectors, i) ==
    IF i > Len(selectors) THEN 0
    ELSE IF SelectOne(soup, selectors[i]) # 0 THEN i
    ELSE FirstSelector(soup, selectors, i + 1)

\* the selectors the loop handed to select_one before it ended
SelectorsTried(soup, selectors) ==
    LET k == FirstSelector(soup, selectors, 1)
    IN  IF k = 0 THEN selectors ELSE SubSeq(selectors, 1, k)

\* the text the selector loop leaves in the field ('' when no selector matched)
SelectorText(soup, selectors) ==
    LET k == FirstSelector(soup, selectors, 1)
    IN  IF k = 0 THEN <<>>
        ELSE GetText(soup[SelectOne(soup, selectors[k])].text)

\* the record both extraction paths start from
NewPostData(u) ==
    [k \in {"url", "content", "author", "timestamp", "instance"} |->
        CASE k = "url" -> u
          [] k = "instance" -> u.netloc
          [] OTHER -> <<>>]

\* a plausible slip: og:description taken whenever the page has one
ExtractFromHtmlOgFirst(soup, u) ==
    LET selected == SelectorText(soup, content_selectors)
        author == SelectorText(soup, author_selectors)
        og == SelectOne(soup, OgDescription)
        content == IF og # 0 THEN soup[og].text ELSE selected
    IN  [NewPostData(u) EXCEPT !["content"] = content, !["author"] = author]

ExtractFromHtml(soup, u) ==
    LET selected == SelectorText(soup, content_selectors)
        author == SelectorText(soup, author_selectors)
        og == SelectOne(soup, OgDescription)
        content == IF selected = <<>> /\ og # 0 THEN soup[og].text ELSE selected
    IN  [NewPostData(u) EXCEPT !["content"] = content, !["author"] = author]

(***************************************************************************)
(* MastodonPostExtractor._extract_post_id                                  *)
(*                                                                         *)
(* A URL is https://<netloc> followed by "/" + segment for every segment   *)
(* of its path; a segment is a sequence of atoms, none of them "/".        *)
(***************************************************************************)
Digits == {"1", "2", "123456789"}

\* the four patterns, each "/" + key segment + "/" + (\d+)
patterns ==
    << "/statuses/(\\d+)", "/@[^/]+/(\\d+)", "/posts/(\\d+)", "/status/(\\d+)" >>

\* the key part of a pattern against one whole segment
KeyMatches(pattern, seg) ==
    CASE pattern = "/statuses/(\\d+)" -> seg = <<"statuses">>
      [] pattern = "/@[^/]+/(\\d+)" -> Len(seg) >= 2 /\ seg[1] = "@"
      [] pattern = "/posts/(\\d+)" -> seg = <<"posts">>
      [] pattern = "/status/(\\d+)" -> seg = <<"status">>

\* (\d+), greedy, at the start of a segment
RECURSIVE LeadingDigits(_)
LeadingDigits(seg) ==
    IF seg # <<>> /\ Head(seg) \in Digits
    THEN <<Head(seg)>> \o LeadingDigits(Tail(seg))
    ELSE <<>>

MatchesAt(pattern, path, k) ==
    /\ k \in 1..(Len(path) - 1)
    /\ KeyMatches(pattern, path[k])
    /\ LeadingDigits(path[k + 1]) # <<>>

\* re.search(pattern, url): the leftmost position the pattern matches at; 0 for None
ReSearch(pattern, u) ==
    IF \E k \in DOMAIN u.path : MatchesAt(pattern, u.path, k)
    THEN CHOOSE k \in DOMAIN u.path :
             /\ MatchesAt(pattern, u.path, k)
             /\ \A j \in 1..(k - 1) : ~MatchesAt(pattern, u.path, j)
    ELSE 0

\* match.group(1)
Group1(u, k) == LeadingDigits(u.path[k + 1])

RECURSIVE SearchPatterns(_, _)
SearchPatterns(u, i) ==
    IF i > Len(patterns) THEN NoneStr
    ELSE IF ReSearch(patterns[i], u) # 0 THEN Group1(u, ReSearch(patterns[i], u))
    ELSE SearchPatterns(u, i + 1)

\* a plausible slip: the match that starts leftmost in the URL, whatever its pattern
ExtractPostIdLeftmost(u) ==
    LET hits == {k \in DOMAIN u.path :
                    \E i \in DOMAIN patterns : MatchesAt(patterns[i], u.path, k)}
    IN  IF hits = {} THEN NoneStr
        ELSE Group1(u, CHOOSE k \in hits : \A j \in hits : k <= j)

ExtractPostId(u) == SearchPatterns(u, 1)

(***************************************************************************)
(* MastodonPostExtractor._try_api_extraction: the part after the GET       *)
(***************************************************************************)
NoResponse ==
    [status |-> "none", body |-> "", content |-> <<>>,
     account |-> "absent", display_name |-> <<>>, created_at |-> <<>>]

\* what the GET of /api/v1/statuses/<id> can bring: an exception, a status,
\* and a body that is no JSON, JSON that is no object, or an object
ApiResponses ==
    { [status |-> "exception", body |-> "", content |-> <<>>,
       account |-> "absent", display_name |-> <<>>, created_at |-> <<>>],
      [status |-> "404", body |-> "html", content |-> <<>>,
       account |-> "absent", display_name |-> <<>>, created_at |-> <<>>],
      [status |-> "200", body |-> "html", content |-> <<>>,
       account |-> "absent", display_name |-> <<>>, created_at |-> <<>>],
      [status |-> "200", body |-> "list", content |-> <<>>,
       account |-> "absent", display_name |-> <<>>, created_at |-> <<>>],
      [status |-> "200", body |-> "object", content |-> <<>>,
       account |-> "absent", display_name |-> <<>>, created_at |-> <<>>],
      [status |-> "200", body |-> "object",
       content |-> <<"<p>", " ", "Free Bitcoin", "</p>">>,
       account |-> "null", display_name |-> <<>>, created_at |-> <<"2024-01-01">>],
      [status |-> "200", body |-> "object",
       content |-> <<"<p>", "Free Bitcoin", " ", "</p>">>,
       account |-> "object", display_name |-> <<"Mallory">>,
       created_at |-> <<"2024-01-01">>] }

\* lines 135-139 with the except of line 141: the fields are assigned one at
\* a time, so an exception keeps the assignments made before it
ApiPopulate(fresh, resp) ==
    IF resp.status # "200" \/ resp.body # "object" THEN fresh
    ELSE LET with_content == [fresh EXCEPT !["content"] = GetText(resp.content)]
         IN  IF resp.account = "null" THEN with_content
             ELSE [with_content EXCEPT !["author"] = resp.display_name,
                                       !["timestamp"] = resp.created_at]

(***************************************************************************)
(* ScamAnalyzer._parse_analysis_result                                     *)
(*                                                                         *)
(* A reply is a sequence of tokens: braces, commas, words of prose, and    *)
(* JSON members ("key":value, written out below).                          *)
(***************************************************************************)
MVerdict ==
    "\"is_suspicious\":true,\"confidence\":90,\"category\":\"phishing\",\"explanation\":\"...\",\"red_flags\":[\"urgency\"],\"recommendations\":\"Do not click\""

MError == "\"error\":\"rate limited\""

MCategoryNull == "\"category\":null"

MRedFlagsNumber == "\"red_flags\":7"

MSuspiciousOnly == "\"is_suspicious\":true"

Members == {MVerdict, MError, MCategoryNull, MRedFlagsNumber, MSuspiciousOnly}

\* the key/value pairs a member decodes to
Pairs(m) ==
    CASE m = MVerdict ->
           [k \in {"is_suspicious", "confidence", "category", "explanation",
                   "red_flags", "recommendations"} |->
               CASE k = "is_suspicious" -> PyTrue
                 [] k = "confidence" -> Val("num", <<"90">>)
                 [] k = "category" -> Str(<<"phishing">>)
                 [] k = "explanation" -> Str(<<"...">>)
                 [] k = "red_flags" -> Val("list", <<"urgency">>)
                 [] k = "recommendations" -> Str(<<"Do not click">>)]
      [] m = MError -> [k \in {"error"} |-> Str(<<"rate limited">>)]
      [] m = MCategoryNull -> [k \in {"category"} |-> Val("null", <<>>)]
      [] m = MRedFlagsNumber -> [k \in {"red_flags"} |-> Val("num", <<"7">>)]
      [] m = MSuspiciousOnly -> [k \in {"is_suspicious"} |-> PyTrue]

\* dict update: the later key wins
Update(a, b) ==
    [k \in DOMAIN a \cup DOMAIN b |-> IF k \in DOMAIN b THEN b[k] ELSE a[k]]

\* members separated by commas, decoded left to right
RECURSIVE LoadMembers(_, _)
LoadMembers(toks, acc) ==
    IF toks = <<>> THEN [ok |-> FALSE, obj |-> EmptyDict]
    ELSE IF Head(toks) \notin Members THEN [ok |-> FALSE, obj |-> EmptyDict]
    ELSE IF Len(toks) = 1 THEN [ok |-> TRUE, obj |-> Update(acc, Pairs(Head(toks)))]
    ELSE IF toks[2] # "," THEN [ok |-> FALSE, obj |-> EmptyDict]
    ELSE LoadMembers(SubSeq(toks, 3, Len(toks)), Update(acc, Pairs(Head(toks))))

\* json.loads of a text that starts with "{": ok is FALSE for JSONDecodeError
JsonLoads(text) ==
    IF Len(text) < 2 \/ text[1] # "{" \/ text[Len(text)] # "}"
    THEN [ok |-> FALSE, obj |-> EmptyDict]
    ELSE IF Len(text) = 2 THEN [ok |-> TRUE, obj |-> EmptyDict]
    ELSE LoadMembers(SubSeq(text, 2, Len(text) - 1), EmptyDict)

\* a plausible slip: \{.*?\}, which stops at the first "}"
ReSearchBracesLazy(result) ==
    IF \E i, j \in DOMAIN result : i < j /\ result[i] = "{" /\ result[j] = "}"
    THEN LET i == CHOOSE a \in DOMAIN result :
                      /\ result[a] = "{"
                      /\ \A b \in 1..(a - 1) : result[b] # "{"
             j == CHOOSE a \in DOMAIN result :
                      /\ a > i /\ result[a] = "}"
                      /\ \A b \in (i + 1)..(a - 1) : result[b] # "}"
         IN  SubSeq(result, i, j)
    ELSE <<>>

\* re.search(r'\{.*\}', result, re.DOTALL).group(): the leftmost "{" that a "}"
\* follows, up to the last "}" (greedy); <<>> for None
ReSearchBraces(result) ==
    IF \E i, j \in DOMAIN result : i < j /\ result[i] = "{" /\ result[j] = "}"
    THEN LET i == CHOOSE a \in DOMAIN result :
                      /\ result[a] = "{"
                      /\ \E b \in DOMAIN result : b > a /\ result[b] = "}"
                      /\ \A c \in 1..(a - 1) :
                            ~(/\ result[c] = "{"
                              /\ \E b \in DOMAIN result : b > c /\ result[b] = "}")
             j == CHOOSE a \in DOMAIN result :
                      /\ a > i /\ result[a] = "}"
                      /\ \A b \in (a + 1)..Len(result) : result[b] # "}"
         IN  SubSeq(result, i, j)
    ELSE <<>>

\* str.lower() of one token
Lower(tok) ==
    CASE tok = "SCAM" -> "scam"
      [] tok = "Suspicious" -> "suspicious"
      [] OTHER -> tok

\* the lower-case tokens whose text has the word as a substring
TextsWith(word) ==
    CASE word = "scam" -> {"scam"}
      [] word = "suspicious" -> {"suspicious", MVerdict, MSuspiciousOnly}

\* word in result.lower()
InLower(word, result) ==
    \E i \in DOMAIN result : Lower(result[i]) \in TextsWith(word)

ParseAnalysisResult(result) ==
    LET json_match == ReSearchBraces(result)
    IN  IF json_match # <<>>
        THEN IF JsonLoads(json_match).ok
             THEN JsonLoads(json_match).obj
             ELSE [k \in {"error", "is_suspicious", "confidence", "explanation"} |->
                     CASE k = "error" -> Str(<<"Could not parse analysis result">>)
                       [] k = "is_suspicious" -> PyFalse
                       [] k = "confidence" -> Val("num", <<"0">>)
                       [] k = "explanation" -> Str(result)]
        ELSE [k \in {"is_suspicious", "confidence", "category", "explanation",
                     "red_flags", "recommendations"} |->
                 CASE k = "is_suspicious" ->
                        PyBool(InLower("suspicious", result) \/ InLower("scam", result))
                   [] k = "confidence" -> Val("num", <<"50">>)
                   [] k = "category" -> Str(<<"unclear">>)
                   [] k = "explanation" -> Str(result)
                   [] k = "red_flags" -> Val("list", <<>>)
                   [] k = "recommendations" -> Str(<<"Manual review recommended">>)]

(***************************************************************************)
(* ScamAnalyzer.analyze_post: the results built in place                   *)
(***************************************************************************)
NoContentResult ==
    [k \in {"error", "is_suspicious", "confidence", "explanation"} |->
        CASE k = "error" -> Str(<<"No content to analyze">>)
          [] k = "is_suspicious" -> PyFalse
          [] k = "confidence" -> Val("num", <<"0">>)
          [] k = "explanation" -> Str(<<"No content found in the post">>)]

AnalysisFailed(cause) ==
    [k \in {"error", "is_suspicious", "confidence", "explanation"} |->
        CASE k = "error" -> Str(<<"Analysis failed: ", cause>>)
          [] k = "is_suspicious" -> PyFalse
          [] k = "confidence" -> Val("num", <<"0">>)
          [] k = "explanation" -> Str(<<"Could not complete analysis due to API error">>)]

(***************************************************************************)
(* _display_text_results                                                   *)
(***************************************************************************)
\* iter(x) raises TypeError for a number, a boolean and None
Iterable(x) == x.t \in {"str", "list", "object"}

\* what the renderer writes, and whether an exception left it: category.upper()
\* needs a str (line 373), the loop over red_flags an iterable (line 385)
DisplayTextResults(pd, an) ==
    LET head == <<"banner", "post", "content">>
        category == Get(an, "category", Str(<<"unclear">>))
        red_flags == Get(an, "red_flags", Val("list", <<>>))
        recommendations == Get(an, "recommendations", Str(<<>>))
        upto_status == head \o <<"status">>
        upto_analysis == upto_status \o <<"category", "confidence", "analysis">>
        upto_flags == IF Truthy(red_flags)
                      THEN upto_analysis \o <<"red flags">>
                      ELSE upto_analysis
        upto_end == (IF Truthy(recommendations)
                     THEN upto_flags \o <<"recommendations">>
                     ELSE upto_flags) \o <<"footer">>
    IN  IF "error" \in DOMAIN an
        THEN [crashed |-> FALSE, out |-> head \o <<"analysis error">>]
        ELSE IF category.t # "str"
        THEN [crashed |-> TRUE, out |-> upto_status]
        ELSE IF Truthy(red_flags) /\ ~Iterable(red_flags)
        THEN [crashed |-> TRUE, out |-> upto_analysis \o <<"red flags header">>]
        ELSE [crashed |-> FALSE, out |-> upto_end]

(***************************************************************************)
(* The inputs of a run of the command                                      *)
(***************************************************************************)
Url(path) == [netloc |-> <<"mastodon.social">>, path |-> path]

Elem(matches, text) == [matches |-> matches, text |-> text]

RunKeys == {NoneStr, <<>>, <<"sk-or-v1">>}

RunUrls == { Url(<< <<"@", "u">>, <<"123456789">> >>), Url(<< <<"about">> >>) }

RunDocs ==
    { <<>>,
      << Elem({".author-name"}, <<"alice">>) >>,
      << Elem({".status__content"}, <<" ", "Hello world", " ">>),
         Elem({".username"}, <<"bob">>) >>,
      << Elem({OgDescription}, <<"Fallback text">>) >>,
      << Elem({".status__content"}, <<" ">>),
         Elem({".post-content"}, <<"Hidden">>),
         Elem({".author-name"}, <<"carol">>) >> }

\* the primary GET: an exception (network, timeout, raise_for_status) or a page
PageResponses(docs) ==
    {[ok |-> FALSE, soup |-> <<>>]} \cup {[ok |-> TRUE, soup |-> d] : d \in docs}

RunReplies ==
    { <<"{", MVerdict, "}">>,
      <<"{", MCategoryNull, "}">>,
      <<"{", MRedFlagsNumber, "}">>,
      <<"{", MSuspiciousOnly, "}">>,
      <<"{", MError, "}">>,
      <<"{", "}">>,
      <<"{", "fine", "}">>,
      <<"Suspicious">>,
      <<"fine">> }

\* chat.completions.create: an exception, a message without content, or a reply
ModelOutcomes(replies) ==
    { [kind |-> "exception", cause |-> "Connection error.", text |-> <<>>],
      [kind |-> "none", cause |-> "expected string or bytes-like object",
       text |-> <<>>] }
    \cup {[kind |-> "reply", cause |-> "", text |-> r] : r \in replies}

(***************************************************************************)
(* The command analyze, one step per network request                       *)
(***************************************************************************)
Init ==
    /\ pc = "start"
    /\ api_key \in RunKeys
    /\ output \in {"text", "json"}
    /\ verbose \in BOOLEAN
    /\ url \in RunUrls
    /\ doc = <<>>
    /\ html_data = None
    /\ consulted = <<>>
    /\ post_id = NoneStr
    /\ api_resp = NoResponse
    /\ post_data = None
    /\ reply = <<>>
    /\ analysis = None
    /\ exit_code = -1
    /\ crashed = FALSE
    /\ net = <<>>
    /\ out = <<>>
    /\ err = <<>>

\* not api_key
Falsy(key) == key = NoneStr \/ key = <<>>

\* a plausible slip: the key is looked at only when the analyzer is built
CheckApiKeyLate ==
    /\ pc = "start"
    /\ out' = IF verbose THEN Append(out, "Analyzing URL") ELSE out
    /\ pc' = "extract"
    /\ UNCHANGED <<api_key, output, verbose, url, doc, html_data, consulted, post_id,
                   api_resp, post_data, reply, analysis, exit_code, crashed, net, err>>

\* lines 300-305: the key check, before anything else
CheckApiKey ==
    /\ pc = "start"
    /\ IF Falsy(api_key)
       THEN /\ err' = Append(err, "Error: OpenRouter API key is required")
            /\ exit_code' = 1
            /\ pc' = "exited"
            /\ out' = out
       ELSE /\ out' = IF verbose THEN Append(out, "Analyzing URL") ELSE out
            /\ pc' = "extract"
            /\ UNCHANGED <<err, exit_code>>
    /\ UNCHANGED <<api_key, output, verbose, url, doc, html_data, consulted, post_id,
                   api_resp, post_data, reply, analysis, crashed, net>>

\* a plausible slip: a failed primary GET falls through to the REST fallback
ExtractPostDataFallsBack(docs) ==
    /\ pc = "extract"
    /\ net' = Append(net, "GET page")
    /\ \E resp \in PageResponses(docs) :
          IF ~resp.ok
          THEN /\ pc' = "try_api"
               /\ UNCHANGED <<doc, html_data, consulted, post_data>>
          ELSE /\ doc' = resp.soup
               /\ html_data' = ExtractFromHtml(resp.soup, url)
               /\ consulted' = SelectorsTried(resp.soup, content_selectors)
               /\ IF html_data'["content"] = <<>>
                  THEN pc' = "try_api" /\ post_data' = post_data
                  ELSE pc' = "analyze" /\ post_data' = html_data'
    /\ UNCHANGED <<api_key, output, verbose, url, post_id, api_resp, reply, analysis,
                   crashed, out, err, exit_code>>

\* extract_post_data up to line 56, and lines 311-313 of analyze when it
\* returned None
ExtractPostDataFrom(docs) ==
    /\ pc = "extract"
    /\ net' = Append(net, "GET page")
    /\ \E resp \in PageResponses(docs) :
          IF ~resp.ok
          THEN /\ err' = err \o <<"Error extracting post",
                                  "Error: Could not extract post data from URL">>
               /\ exit_code' = 1
               /\ pc' = "exited"
               /\ UNCHANGED <<doc, html_data, consulted, post_data>>
          ELSE /\ doc' = resp.soup
               /\ html_data' = ExtractFromHtml(resp.soup, url)
               /\ consulted' = SelectorsTried(resp.soup, content_selectors)
               /\ IF html_data'["content"] = <<>>
                  THEN pc' = "try_api" /\ post_data' = post_data
                  ELSE pc' = "analyze" /\ post_data' = html_data'
               /\ UNCHANGED <<err, exit_code>>
    /\ UNCHANGED <<api_key, output, verbose, url, post_id, api_resp, reply, analysis,
                   crashed, out>>

ExtractPostData == ExtractPostDataFrom(RunDocs)

\* _try_api_extraction, and line 57 that assigns its record
TryApiExtraction ==
    /\ pc = "try_api"
    /\ post_id' = ExtractPostId(url)
    /\ IF post_id' = NoneStr
       THEN /\ post_data' = NewPostData(url)
            /\ UNCHANGED <<net, api_resp>>
       ELSE /\ net' = Append(net, "GET api")
            /\ \E resp \in ApiResponses :
                  /\ api_resp' = resp
                  /\ post_data' = ApiPopulate(NewPostData(url), resp)
    /\ pc' = "analyze"
    /\ UNCHANGED <<api_key, output, verbose, url, doc, html_data, consulted, reply,
                   analysis, exit_code, crashed, out, err>>

\* lines 315-318
VerboseLines(o) ==
    IF verbose THEN o \o <<"Extracted post from", "Author", "Content preview">> ELSE o

\* a plausible slip: the model is called whatever the content
AnalyzePostAlwaysCalls(replies) ==
    /\ pc = "analyze"
    /\ net' = Append(net, "POST model")
    /\ \E o \in ModelOutcomes(replies) :
          /\ reply' = o.text
          /\ analysis' = IF o.kind = "reply"
                         THEN ParseAnalysisResult(o.text)
                         ELSE AnalysisFailed(o.cause)
    /\ out' = VerboseLines(out)
    /\ pc' = "render"
    /\ UNCHANGED <<api_key, output, verbose, url, doc, html_data, consulted, post_id,
                   api_resp, post_data, exit_code, crashed, err>>

\* analyze_post, with the model call when there is content
AnalyzePostFrom(replies) ==
    /\ pc = "analyze"
    /\ IF Get(post_data, "content", <<>>) = <<>>
       THEN /\ analysis' = NoContentResult
            /\ UNCHANGED <<net, reply>>
       ELSE /\ net' = Append(net, "POST model")
            /\ \E o \in ModelOutcomes(replies) :
                  /\ reply' = o.text
                  /\ analysis' = IF o.kind = "reply"
                                 THEN ParseAnalysisResult(o.text)
                                 ELSE AnalysisFailed(o.cause)
    /\ out' = VerboseLines(out)
    /\ pc' = "render"
    /\ UNCHANGED <<api_key, output, verbose, url, doc, html_data, consulted, post_id,
                   api_resp, post_data, exit_code, crashed, err>>

AnalyzePost == AnalyzePostFrom(RunReplies)

\* lines 325-333, and the end of the process: 0 when analyze returns, 1 with a
\* traceback when an exception leaves it
OutputResults ==
    /\ pc = "render"
    /\ IF output = "json"
       THEN /\ out' = Append(out, "json")
            /\ crashed' = FALSE
       ELSE /\ out' = out \o DisplayTextResults(post_data, analysis).out
            /\ crashed' = DisplayTextResults(post_data, analysis).crashed
    /\ err' = IF crashed' THEN Append(err, "Traceback") ELSE err
    /\ exit_code' = IF crashed' THEN 1 ELSE 0
    /\ pc' = "exited"
    /\ UNCHANGED <<api_key, output, verbose, url, doc, html_data, consulted, post_id,
                   api_resp, post_data, reply, analysis, net>>

Next == CheckApiKey \/ ExtractPostData \/ TryApiExtraction \/ AnalyzePost \/ OutputResults

Spec == Init /\ [][Next]_vars

(***************************************************************************)
(* analyze_post called on any record, as test_analyzer.py calls it         *)
(***************************************************************************)
PostTexts == {<<>>, <<" ">>, <<"Free Bitcoin">>}

\* records with every choice of keys present, as dict.get allows
PostRecords ==
    UNION {[keys -> PostTexts] : keys \in SUBSET {"content", "author", "instance"}}

InitAnalyze ==
    /\ pc = "analyze"
    /\ api_key = <<"sk-or-v1">>
    /\ output = "text"
    /\ verbose = FALSE
    /\ url = Url(<<>>)
    /\ doc = <<>>
    /\ html_data = None
    /\ consulted = <<>>
    /\ post_id = NoneStr
    /\ api_resp = NoResponse
    /\ post_data \in PostRecords
    /\ reply = <<>>
    /\ analysis = None
    /\ exit_code = -1
    /\ crashed = FALSE
    /\ net = <<>>
    /\ out = <<>>
    /\ err = <<>>

SpecAnalyze == InitAnalyze /\ [][AnalyzePost]_vars

(***************************************************************************)
(* _parse_analysis_result on every reply of up to MaxReplyLen tokens       *)
(***************************************************************************)
Tokens == {"{", "}", ",", "fine", "SCAM", "Suspicious"} \cup Members

AllReplies == UNION {[1..n -> Tokens] : n \in 0..MaxReplyLen}

InitParse ==
    /\ pc = "parse"
    /\ api_key = <<"sk-or-v1">>
    /\ output = "text"
    /\ verbose = FALSE
    /\ url = Url(<<>>)
    /\ doc = <<>>
    /\ html_data = None
    /\ consulted = <<>>
    /\ post_id = NoneStr
    /\ api_resp = NoResponse
    /\ post_data = None
    /\ reply \in AllReplies
    /\ analysis = None
    /\ exit_code = -1
    /\ crashed = FALSE
    /\ net = <<>>
    /\ out = <<>>
    /\ err = <<>>

ParseReply ==
    /\ pc = "parse"
    /\ analysis' = ParseAnalysisResult(reply)
    /\ pc' = "parsed"
    /\ UNCHANGED <<api_key, output, verbose, url, doc, html_data, consulted, post_id,
                   api_resp, post_data, reply, exit_code, crashed, net, out, err>>

SpecParse == InitParse /\ [][ParseReply]_vars

(***************************************************************************)
(* _try_api_extraction on every URL of up to MaxSegs path segments         *)
(***************************************************************************)
Segments ==
    { <<"statuses">>, <<"posts">>, <<"status">>, <<"@", "u">>, <<"@">>,
      <<"1">>, <<"2", "1">>, <<"2", "u">>, <<"u">> }

AllUrls == {Url(p) : p \in UNION {[1..n -> Segments] : n \in 0..MaxSegs}}

InitId ==
    /\ pc = "try_api"
    /\ api_key = <<"sk-or-v1">>
    /\ output = "text"
    /\ verbose = FALSE
    /\ url \in AllUrls
    /\ doc = <<>>
    /\ html_data = NewPostData(url)
    /\ consulted = content_selectors
    /\ post_id = NoneStr
    /\ api_resp = NoResponse
    /\ post_data = None
    /\ reply = <<>>
    /\ analysis = None
    /\ exit_code = -1
    /\ crashed = FALSE
    /\ net = <<"GET page">>
    /\ out = <<>>
    /\ err = <<>>

SpecId == InitId /\ [][TryApiExtraction]_vars

(***************************************************************************)
(* extract_post_data on every page of up to MaxElems elements              *)
(***************************************************************************)
ElemKinds ==
    {{content_selectors[i]} : i \in DOMAIN content_selectors \ {2}}
    \cup {{content_selectors[1], content_selectors[2]}}
    \cup {{author_selectors[i]} : i \in DOMAIN author_selectors}
    \cup {{OgDescription}, {}}

ElemTexts == {<<>>, <<" ">>, <<" ", "Hello world", " ">>, <<"Fallback text">>}

Elems == {Elem(m, t) : m \in ElemKinds, t \in ElemTexts}

AllDocs == UNION {[1..n -> Elems] : n \in 0..MaxElems}

InitHtml ==
    /\ pc = "extract"
    /\ api_key = <<"sk-or-v1">>
    /\ output = "text"
    /\ verbose = FALSE
    /\ url = Url(<< <<"@", "u">>, <<"123456789">> >>)
    /\ doc = <<>>
    /\ html_data = None
    /\ consulted = <<>>
    /\ post_id = NoneStr
    /\ api_resp = NoResponse
    /\ post_data = None
    /\ reply = <<>>
    /\ analysis = None
    /\ exit_code = -1
    /\ crashed = FALSE
    /\ net = <<>>
    /\ out = <<>>
    /\ err = <<>>

ExtractAnyPage == ExtractPostDataFrom(AllDocs)

SpecHtml == InitHtml /\ [][ExtractAnyPage]_vars

(***************************************************************************)
(* The properties                                                          *)
(***************************************************************************)

\* C1: a run of analyze ends with exit code 1 if and only if the API key is
\* missing or extract_post_data returned no record (the primary GET failed);
\* every other run ends with exit code 0, whatever the model replied and
\* whichever output format was asked for.
C1_ExitOneOnlyOnFatalInput ==
    pc = "exited" =>
        /\ exit_code \in {0, 1}
        /\ exit_code = 1 <=> (Falsy(api_key) \/ (net # <<>> /\ html_data = None))

\* C2: every result of analyze_post is exactly one of: a structured verdict
\* (the six fields present, no error field), or a result whose error field is
\* populated.
C2_VerdictXorError ==
    (pc = "render" /\ analysis # None) =>
        LET verdict == /\ {"is_suspicious", "confidence", "category", "explanation",
                           "red_flags", "recommendations"} \subseteq DOMAIN analysis
                       /\ "error" \notin DOMAIN analysis
            failed == "error" \in DOMAIN analysis /\ Truthy(analysis["error"])
        IN  (verdict \/ failed) /\ ~(verdict /\ failed)

\* C3: with the API key present and the primary GET succeeded, no exception
\* reaches the top level of the process, whatever the model call did and
\* whatever shape its reply has, in text and in json output.
C3_NoUncaughtFault ==
    (~Falsy(api_key) /\ html_data # None) => ~crashed

\* C4: analyze_post on a record whose content is empty or absent returns
\* error = "No content to analyze", is_suspicious = false, confidence = 0 and
\* sends no request to the model; a request is sent only for non-empty content.
C4_EmptyContentNoModelCall ==
    pc = "render" =>
        LET content == Get(post_data, "content", <<>>)
        IN  /\ content = <<>> =>
                /\ net = <<>>
                /\ {"error", "is_suspicious", "confidence"} \subseteq DOMAIN analysis
                /\ analysis["error"] = Str(<<"No content to analyze">>)
                /\ analysis["is_suspicious"] = PyFalse
                /\ analysis["confidence"] = Val("num", <<"0">>)
            /\ net # <<>> => (net = <<"POST model">> /\ content # <<>>)

C4_Witness ==
    /\ pc = "render"
    /\ "content" \notin DOMAIN post_data
    /\ "author" \in DOMAIN post_data
    /\ analysis = NoContentResult
    /\ net = <<>>

\* C5: _parse_analysis_result takes one of three tiers, decided by the reply
\* alone: the text from the first "{" to the last "}" exists and decodes, and
\* the decoded object is the result; no such text exists, and the result is the
\* heuristic verdict (is_suspicious exactly when the reply holds "suspicious" or
\* "scam" in any case, confidence 50, category unclear, the reply as
\* explanation, no red flags, "Manual review recommended"); the text exists
\* and does not decode, and the result is the parse error with the reply as
\* explanation.
C5_ThreeTiers ==
    pc = "parsed" =>
        LET lbs == {i \in DOMAIN reply : reply[i] = "{"}
            rbs == {i \in DOMAIN reply : reply[i] = "}"}
            first == CHOOSE i \in lbs : \A j \in lbs : i <= j
            last == CHOOSE i \in rbs : \A j \in rbs : i >= j
            exists == lbs # {} /\ rbs # {} /\ first < last
            text == SubSeq(reply, first, last)
            mentions == \E i \in DOMAIN reply :
                            reply[i] \in {"SCAM", "Suspicious", MVerdict, MSuspiciousOnly}
        IN  /\ (exists /\ JsonLoads(text).ok) => analysis = JsonLoads(text).obj
            /\ (exists /\ ~JsonLoads(text).ok) =>
                   analysis = [error |-> Str(<<"Could not parse analysis result">>),
                               is_suspicious |-> PyFalse,
                               confidence |-> Val("num", <<"0">>),
                               explanation |-> Str(reply)]
            /\ ~exists =>
                   analysis = [is_suspicious |-> PyBool(mentions),
                               confidence |-> Val("num", <<"50">>),
                               category |-> Str(<<"unclear">>),
                               explanation |-> Str(reply),
                               red_flags |-> Val("list", <<>>),
                               recommendations |-> Str(<<"Manual review recommended">>)]
            /\ reply = <<"{", MVerdict, "}">> =>
                   analysis = [is_suspicious |-> PyTrue,
                               confidence |-> Val("num", <<"90">>),
                               category |-> Str(<<"phishing">>),
                               explanation |-> Str(<<"...">>),
                               red_flags |-> Val("list", <<"urgency">>),
                               recommendations |-> Str(<<"Do not click">>)]

\* the third tier, on a reply whose text up to its first "}" would decode
C5_Witness ==
    /\ pc = "parsed"
    /\ reply = <<"fine", "{", "}", "}">>
    /\ "error" \in DOMAIN analysis
    /\ analysis["explanation"] = Str(reply)

\* C6: the requests of a run are issued in sequence and none twice: the page
\* GET first and once, the REST GET at most once and only after a page GET
\* that succeeded and left content empty, the model call at most once and only
\* after extract_post_data returned a record, and never after a failed page GET.
C6_SequentialNoRetry ==
    /\ net \in { <<>>, <<"GET page">>, <<"GET page", "GET api">>,
                 <<"GET page", "POST model">>,
                 <<"GET page", "GET api", "POST model">> }
    /\ (\E i \in DOMAIN net : net[i] = "GET api") =>
           (html_data # None /\ html_data["content"] = <<>>)
    /\ (\E i \in DOMAIN net : net[i] = "POST model") =>
           (html_data # None /\ post_data # None)
    /\ (pc = "extract") => net = <<>>

C6_Witness ==
    /\ pc = "exited"
    /\ net = <<"GET page", "GET api", "POST model">>

\* C7: a run without API key reports the error and exits non-zero before any
\* network activity: no page GET, no REST GET, no model call.
C7_NoKeyNoNetwork ==
    Falsy(api_key) =>
        /\ net = <<>>
        /\ pc \in {"start", "exited"}
        /\ pc = "exited" =>
               /\ exit_code = 1
               /\ err = <<"Error: OpenRouter API key is required">>
               /\ out = <<>>

C7_Witness ==
    /\ api_key = NoneStr
    /\ pc = "exited"
    /\ exit_code = 1
    /\ net = <<>>

\* C8: when the REST fallback is attempted and does not succeed, the record
\* extract_post_data returns keeps every field the HTML steps had set: url,
\* instance, and the author the author selectors found.
C8_FallbackKeepsHtmlFields ==
    (/\ pc \in {"analyze", "render", "exited"}
     /\ html_data # None
     /\ html_data["content"] = <<>>
     /\ ~(api_resp.status = "200" /\ api_resp.body = "object"
          /\ api_resp.account # "null")) =>
        /\ post_data # None
        /\ post_data["url"] = html_data["url"]
        /\ post_data["instance"] = html_data["instance"]
        /\ post_data["author"] = html_data["author"]

\* C9: _extract_post_id returns the digits captured by the first of
\* /statuses/<digits>, /@<user>/<digits>, /posts/<digits>, /status/<digits>,
\* in that order, that matches anywhere in the URL; it returns None exactly
\* when none matches, and then the REST fallback issues no GET.
C9_FirstPatternInOrder ==
    pc = "analyze" =>
        LET order == << "/statuses/(\\d+)", "/@[^/]+/(\\d+)", "/posts/(\\d+)",
                        "/status/(\\d+)" >>
            at(i) == {k \in DOMAIN url.path : MatchesAt(order[i], url.path, k)}
            hits == {i \in DOMAIN order : at(i) # {}}
            winner == CHOOSE i \in hits : \A j \in hits : i <= j
            place == CHOOSE k \in at(winner) : \A j \in at(winner) : k <= j
        IN  IF hits = {}
            THEN post_id = NoneStr /\ net = <<"GET page">> /\ api_resp = NoResponse
            ELSE post_id # NoneStr /\ post_id = LeadingDigits(url.path[place + 1])

\* a later pattern matches further left in the URL, and the earlier pattern wins
C9_Witness ==
    /\ pc = "analyze"
    /\ url.path = << <<"@", "u">>, <<"1">>, <<"statuses">>, <<"2", "1">> >>
    /\ post_id = <<"2", "1">>

\* C10: _extract_from_html takes the content from the first selector of the
\* list that matches an element; selectors after it are not consulted, even
\* when the element's trimmed text is empty; og:description gives the content
\* exactly when the selector pass left it empty, and never replaces a
\* non-empty one.
C10_FirstSelectorWins ==
    (pc # "extract" /\ html_data # None) =>
        LET on(sel) == {j \in DOMAIN doc : sel \in doc[j].matches}
            low(S) == CHOOSE a \in S : \A b \in S : a <= b
            matching == {i \in DOMAIN content_selectors : on(content_selectors[i]) # {}}
            winner == low(matching)
            raw == doc[low(on(content_selectors[winner]))].text
            selected == IF matching = {} THEN <<>> ELSE GetText(raw)
            ogs == on(OgDescription)
        IN  /\ consulted = IF matching = {} THEN content_selectors
                           ELSE SubSeq(content_selectors, 1, winner)
            /\ html_data["content"] =
                   IF selected # <<>> THEN selected
                   ELSE IF ogs # {} THEN doc[low(ogs)].text
                   ELSE <<>>
            /\ (matching # {} /\ raw = <<" ", "Hello world", " ">>) =>
                   html_data["content"] = <<"Hello world">>

\* the first selector wins with white space only, a later selector has text
C10_Witness ==
    /\ pc = "try_api"
    /\ doc = << Elem({".status__content"}, <<" ">>),
                Elem({".post-content"}, <<"Fallback text">>) >>
    /\ consulted = <<".status__content">>
    /\ html_data["content"] = <<>>

=============================================================================
